---- MODULE Spec2Model ----
(***************************************************************************)
(* Data-source workers of biogui (serial port, TCP socket, BLE): the       *)
(* start/stop command sequences and the packet framing of _collectData.    *)
(* Each worker lives on one event loop, so every handler runs to           *)
(* completion before the next one starts; the only place where a handler   *)
(* waits for the device is the waitForReadyRead loop of the serial         *)
(* stopCollecting, which is modelled as its own position ("draining").     *)
(***************************************************************************)
EXTENDS Integers, Sequences, FiniteSets, TLC

VARIABLES
    transport,   \* which worker class: "serial", "tcp" or "ble"
    packetSize,  \* self._packetSize
    startSeq,    \* self._startSeq
    stopSeq,     \* self._stopSeq
    buffer,      \* self._buffer
    isOpen,      \* serial: port open; tcp: server listening
    clientSock,  \* tcp: self._clientSock (0 = None, else the socket's id)
    openSocks,   \* tcp: accepted sockets still open (readyRead connected)
    clients,     \* tcp: number of connections accepted so far
    phase,       \* "idle", "running", "draining", "stopped", "failed"
    errors,      \* number of errorOccurred emissions
    sessions,    \* number of startCollecting calls so far
    startBuf,    \* history: buffer contents when the session was started
    sessFed,     \* history: bytes handed to _collectData in this session
    sessOut,     \* history: packets emitted by dataPacketReady in this session
    fresh,       \* history: a freshly constructed worker fed the same chunks
    ev,          \* history: what the handler that ran last did
    wfail,       \* history: element whose write the transport reported as
                 \* failed in that handler (0 = none)
    budget,      \* bytes the device will still send
    endless,     \* the device never falls silent: the histories of a
                 \* session are not kept and budget caps the buffer instead
    prov,        \* TCP: the socket each buffered byte was read from, and
                 \* the signalling and the read socket of the last readyRead
    combos,      \* InterfaceConfigDialog: the value selected in each combo box
    params,      \* interface_dummy.params
    decoded,     \* what decodeFn made of the last packet
    templates,   \* InterfaceConfigDialog: startSeqTemplate, sigInfoTemplate
    dialogStartSeq,  \* InterfaceConfigDialog._startSeq
    dialogSigInfo,   \* InterfaceConfigDialog._sigInfo
    accepted,    \* QDialog.accept() was called
    twin,        \* one worker of each transport, all given the same chunks
    comboBoxName,            \* BLEConfigWidget: items and current index
    comboBoxService,
    comboBoxCharacteristic,  \* items only
    filter_prefix,
    scan,                    \* discovery_agent: active, devices yet to
                             \* report, scans started so far
    controller,              \* id of self.controller, 0 for None
    current_device,
    ctrls,                   \* every QLowEnergyController created so far
    pending,                 \* service objects whose discoverDetails() runs
    device_services_cache,
    services_cache,
    wev                      \* the last handler of the widget and its result

vars == <<transport, packetSize, startSeq, stopSeq, buffer, isOpen, clientSock,
          openSocks, clients, phase, errors, sessions, startBuf, sessFed,
          sessOut, fresh, ev, wfail, budget, endless, prov, combos, params,
          decoded, templates, dialogStartSeq, dialogSigInfo, accepted, twin,
          comboBoxName, comboBoxService,
          comboBoxCharacteristic, filter_prefix, scan, controller,
          current_device, ctrls, pending, device_services_cache,
          services_cache, wev>>

config == <<transport, packetSize, startSeq, stopSeq>>
tcpState == <<clientSock, openSocks, clients>>
sessHist == <<startBuf, sessFed, sessOut, fresh>>
dialog == <<combos, params, decoded, templates, dialogStartSeq, dialogSigInfo,
            accepted>>
widget == <<comboBoxName, comboBoxService, comboBoxCharacteristic,
            filter_prefix, scan, controller, current_device, ctrls, pending,
            device_services_cache, services_cache, wev>>
env == <<endless, dialog, twin, widget>>
world == <<env, prov>>

(***************************************************************************)
(* Bounds                                                                  *)
(***************************************************************************)
MaxPacketSize == 4
MaxChunk == 4
MaxFed == 5
MaxFedSeq == 1
MaxFedCtor == 2
MaxFedLive == 2
MaxFedTwin == 4
MaxCtrls == 3
MaxScans == 1
MaxSeqLen == 2
MaxSessions == 2
MaxClients == 2

Transports == {"serial", "tcp", "ble"}
Byte == {0, 1}

Min(a, b) == IF a < b THEN a ELSE b

RECURSIVE SeqsUpTo(_, _)
SeqsUpTo(S, n) ==
    IF n = 0 THEN {<<>>}
    ELSE LET R == SeqsUpTo(S, n - 1)
         IN  R \cup {Append(r, x) : r \in {q \in R : Len(q) = n - 1}, x \in S}

Chunks == SeqsUpTo(Byte, MaxChunk)

RECURSIVE Flatten(_)
Flatten(ps) == IF ps = <<>> THEN <<>> ELSE Head(ps) \o Flatten(Tail(ps))

(***************************************************************************)
(* Command sequences: list[bytes | float].  A delay is kept in             *)
(* milliseconds; an element is a bytes object, a float or an int.          *)
(***************************************************************************)
BytesEl(b) == [t |-> "bytes", b |-> b, d |-> 0]
FloatEl(ms) == [t |-> "float", b |-> <<>>, d |-> ms]
IntEl(ms) == [t |-> "int", b |-> <<>>, d |-> ms]

WriteOp(b) == [op |-> "write", b |-> b, d |-> 0]
SleepOp(ms) == [op |-> "sleep", b |-> <<>>, d |-> ms]

\* bytes.decode("utf-8") succeeds
RECURSIVE Utf8Valid(_)
Utf8Valid(b) ==
    IF b = <<>> THEN TRUE
    ELSE IF b[1] < 128 THEN Utf8Valid(Tail(b))
    ELSE IF b[1] >= 194 /\ b[1] <= 223
         THEN /\ Len(b) >= 2
              /\ b[2] >= 128 /\ b[2] <= 191
              /\ Utf8Valid(SubSeq(b, 3, Len(b)))
    ELSE IF b[1] >= 224 /\ b[1] <= 239
         THEN /\ Len(b) >= 3
              /\ b[2] >= (IF b[1] = 224 THEN 160 ELSE 128)
              /\ b[2] <= (IF b[1] = 237 THEN 159 ELSE 191)
              /\ b[3] >= 128 /\ b[3] <= 191
              /\ Utf8Valid(SubSeq(b, 4, Len(b)))
    ELSE IF b[1] >= 240 /\ b[1] <= 244
         THEN /\ Len(b) >= 4
              /\ b[2] >= (IF b[1] = 240 THEN 144 ELSE 128)
              /\ b[2] <= (IF b[1] = 244 THEN 143 ELSE 191)
              /\ b[3] >= 128 /\ b[3] <= 191
              /\ b[4] >= 128 /\ b[4] <= 191
              /\ Utf8Valid(SubSeq(b, 5, Len(b)))
    ELSE FALSE

\* the for loop over a command sequence, serial port and TCP socket
RECURSIVE RunSeq(_)
RunSeq(seq) ==
    IF seq = <<>> THEN [log |-> <<>>, ok |-> TRUE]
    ELSE LET c == Head(seq)
             r == RunSeq(Tail(seq))
         IN  IF c.t = "bytes"
             THEN [log |-> <<WriteOp(c.b)>> \o r.log, ok |-> r.ok]
             ELSE IF c.t = "float"
             THEN [log |-> <<SleepOp(c.d)>> \o r.log, ok |-> r.ok]
             ELSE r

\* mutant of BlePayload: the line ending is a bare LF
BlePayloadLf(b) == b \o <<10>>

\* (c.decode("utf-8") + "\r\n").encode("utf-8")
BlePayload(b) == b \o <<13, 10>>

\* the for loop over a command sequence, BLE characteristic; a bytes
\* element that is not UTF-8 raises UnicodeDecodeError out of the handler
RECURSIVE BleRunSeq(_)
BleRunSeq(seq) ==
    IF seq = <<>> THEN [log |-> <<>>, ok |-> TRUE]
    ELSE LET c == Head(seq)
         IN  IF c.t = "bytes"
             THEN IF Utf8Valid(c.b)
                  THEN LET r == BleRunSeq(Tail(seq))
                       IN  [log |-> <<WriteOp(BlePayload(c.b))>> \o r.log,
                            ok |-> r.ok]
                  ELSE [log |-> <<>>, ok |-> FALSE]
             ELSE IF c.t = "float"
             THEN LET r == BleRunSeq(Tail(seq))
                  IN  [log |-> <<SleepOp(c.d)>> \o r.log, ok |-> r.ok]
             ELSE BleRunSeq(Tail(seq))

(***************************************************************************)
(* Packet framing                                                          *)
(***************************************************************************)
\* QByteArray.mid(pos, len)
\* (a negative len takes everything from pos on)
Mid(b, pos, len) ==
    IF len < 0 THEN SubSeq(b, pos + 1, Len(b))
    ELSE SubSeq(b, pos + 1, Min(pos + len, Len(b)))

\* mutant of Remove: one byte too few is removed
RemoveShort(b, pos, len) == SubSeq(b, 1, pos) \o SubSeq(b, pos + len, Len(b))

\* QByteArray.remove(pos, len)
\* (a len that is not positive removes nothing)
Remove(b, pos, len) ==
    IF len <= 0 THEN b
    ELSE SubSeq(b, 1, pos) \o SubSeq(b, pos + len + 1, Len(b))

\* mutant of HasPacket: any buffered byte triggers an emission
HasPacketAny(b, P) == Len(b) > 0

\* mutant of HasPacket: a buffer of exactly packetSize bytes is not emitted
HasPacketStrict(b, P) == Len(b) > P

\* self._buffer.size() >= self._packetSize
HasPacket(b, P) == Len(b) >= P

\* mutant of Extract: the emitted packet is not removed from the buffer
ExtractKeep(b, P) ==
    IF HasPacket(b, P)
    THEN [buf |-> b, out |-> <<Mid(b, 0, P)>>, ok |-> TRUE]
    ELSE [buf |-> b, out |-> <<>>, ok |-> TRUE]

\* mutant of Extract: a second complete packet is emitted in the same call
ExtractTwice(b, P) ==
    IF Len(b) >= 2 * P /\ P > 0
    THEN [buf |-> Remove(b, 0, 2 * P), out |-> <<Mid(b, 0, P), Mid(b, P, P)>>,
          ok |-> TRUE]
    ELSE IF HasPacket(b, P)
    THEN [buf |-> Remove(b, 0, P), out |-> <<Mid(b, 0, P)>>, ok |-> TRUE]
    ELSE [buf |-> b, out |-> <<>>, ok |-> TRUE]

\* the if block shared by the three _collectData handlers
Extract(b, P) ==
    IF HasPacket(b, P)
    THEN [buf |-> Remove(b, 0, P), out |-> <<Mid(b, 0, P)>>, ok |-> TRUE]
    ELSE [buf |-> b, out |-> <<>>, ok |-> TRUE]

SerialCollectData(buf, P, chunk) == Extract(buf \o chunk, P)

TcpCollectData(buf, P, chunk) == Extract(buf \o chunk, P)

\* struct.unpack(f"{len(data)//4}I", data) raises struct.error unless
\* len(data) is a multiple of 4, before the chunk is appended
BleCollectData(buf, P, chunk) ==
    IF Len(chunk) % 4 # 0
    THEN [buf |-> buf, out |-> <<>>, ok |-> FALSE]
    ELSE Extract(buf \o chunk, P)

CollectData(tr, buf, P, chunk) ==
    CASE tr = "serial" -> SerialCollectData(buf, P, chunk)
      [] tr = "tcp" -> TcpCollectData(buf, P, chunk)
      [] tr = "ble" -> BleCollectData(buf, P, chunk)

(***************************************************************************)
(* Configurations                                                          *)
(***************************************************************************)
\* interface_esp32: startSeq = [b"="], stopSeq = [b":"]
Esp32Config == [start |-> <<BytesEl(<<61>>)>>, stop |-> <<BytesEl(<<58>>)>>]

\* interface_dummy: startSeq = [bytes([fs1, gain1]), 0.05,
\* bytes([fs2, gain2]), 0.05, b":"] with the codes of configOptions,
\* stopSeq = [b"="]
DummyConfig ==
    [start |-> <<BytesEl(<<1, 16>>), FloatEl(50), BytesEl(<<3, 48>>),
                 FloatEl(50), BytesEl(<<58>>)>>,
     stop |-> <<BytesEl(<<61>>)>>]

\* the workers whose framing is checked carry the sequences of
\* interface_dummy, which have several commands and delays
Configs == {DummyConfig}

\* elements a command sequence is built from: a command, a command that is
\* not UTF-8, a float delay of 0.05 s and an integer delay of 1 s
Elems == {BytesEl(<<61>>), BytesEl(<<255>>), FloatEl(50), IntEl(1000)}

AllSeqs == SeqsUpTo(Elems, MaxSeqLen)

RECURSIVE Reverse(_)
Reverse(s) == IF s = <<>> THEN <<>> ELSE Append(Reverse(Tail(s)), Head(s))

SeqConfigs == {[start |-> s, stop |-> Reverse(s)] : s \in AllSeqs}

Ev(op, ph, pre, chunk, out, ok, seq, log) ==
    [op |-> op, ph |-> ph, pre |-> pre, chunk |-> chunk, out |-> out,
     ok |-> ok, seq |-> seq, log |-> log]

NoFresh == [buf |-> <<>>, out |-> <<>>]

\* the state a constructor leaves
(***************************************************************************)
(* interface_dummy: the configuration dialog, packetSize and decodeFn      *)
(***************************************************************************)
\* configOptions: the keys of each combo box
configOptions ==
    [FS1 : {200, 500, 1000}, GAIN1 : {1, 2, 4, 8},
     FS2 : {200, 500, 1000}, GAIN2 : {1, 2, 4, 8},
     NCH1 : {2, 4}, NCH2 : {2, 4}]

\* the first entry of each combo box
DefaultCombos ==
    [FS1 |-> 200, GAIN1 |-> 1, FS2 |-> 200, GAIN2 |-> 1, NCH1 |-> 2, NCH2 |-> 2]

\* params = {}
NoParams ==
    [FS1 |-> 0, GAIN1 |-> 0, FS2 |-> 0, GAIN2 |-> 0, NCH1 |-> 0, NCH2 |-> 0]

NoDecode == [st |-> "none", sig1 |-> <<>>, sig2 |-> <<>>]

(***************************************************************************)
(* BLEConfigWidget: the devices in range and the Qt objects it uses        *)
(***************************************************************************)
None == "None"

\* two devices in range, named devA and devB, identified by their address
Devices == {"A", "B"}

\* the text of lineEditName: empty, a prefix of both names, a prefix of none
Filters == {"", "dev", "x"}

\* name.lower().startswith(self.filter_prefix)
Matches(prefix, d) == prefix = "dev"

\* the services each device reports, in the order of serviceDiscovered
ServicesOf(d) == IF d = "A" THEN <<"s1", "s2">> ELSE <<"s1", "s3">>

AllServices == {"s1", "s2", "s3"}

\* service.characteristics() of a service of device d
CharsOf(d, u) ==
    CASE d = "A" /\ u = "s1" -> <<[uuid |-> "c1", props |-> {"Write"}],
                                  [uuid |-> "c2", props |-> {"Notify"}]>>
      [] d = "A" /\ u = "s2" -> <<[uuid |-> "c3", props |-> {"Read"}]>>
      [] d = "B" /\ u = "s1" -> <<[uuid |-> "c1", props |-> {"Write", "Notify"}]>>
      [] OTHER -> <<[uuid |-> "c4", props |-> {"Notify"}]>>

\* a QLowEnergyCharacteristic, with the controller whose service made it
CharObjects(c, d, u) ==
    [i \in 1 .. Len(CharsOf(d, u)) |->
        [uuid |-> CharsOf(d, u)[i].uuid, props |-> CharsOf(d, u)[i].props,
         ctrl |-> c]]

NoChar == [uuid |-> None, props |-> {}, ctrl |-> 0]

\* QComboBox: items with text and userData, currentIndex is -1 when empty
EmptyCombo == [items |-> <<>>, idx |-> -1]

\* QComboBox.addItem: the first item becomes the current one
AddItem(combo, text, data) ==
    [items |-> Append(combo.items, [text |-> text, data |-> data]),
     idx |-> IF combo.items = <<>> THEN 0 ELSE combo.idx]

CurrentText(combo) == IF combo.idx < 0 THEN "" ELSE combo.items[combo.idx + 1].text

\* QComboBox.itemData(currentIndex())
CurrentData(combo) == IF combo.idx < 0 THEN None ELSE combo.items[combo.idx + 1].data

\* QComboBox.findText
FindText(combo, text) ==
    IF \E i \in 1 .. Len(combo.items) : combo.items[i].text = text
    THEN (CHOOSE i \in 1 .. Len(combo.items) :
            /\ combo.items[i].text = text
            /\ \A j \in 1 .. i - 1 : combo.items[j].text # text) - 1
    ELSE -1

NoResult ==
    [op |-> "init", dev |-> None, cached |-> FALSE, list |-> <<>>,
     valid |-> FALSE, device |-> None, ctrl |-> 0, uuid |-> None,
     wch |-> NoChar, nch |-> NoChar]

\* BLEConfigWidget.__init__
NoWidget ==
    /\ comboBoxName = EmptyCombo
    /\ comboBoxService = EmptyCombo
    /\ comboBoxCharacteristic = <<>>
    /\ filter_prefix = ""
    /\ scan = [active |-> FALSE, left |-> {}, n |-> 0]
    /\ controller = 0
    /\ current_device = None
    /\ ctrls = <<>>
    /\ pending = {}
    /\ device_services_cache = [d \in Devices |-> [has |-> FALSE, list |-> <<>>]]
    /\ services_cache = [u \in AllServices |-> [has |-> FALSE, chars |-> <<>>]]
    /\ wev = NoResult

\* three workers right after construction: self._buffer = QByteArray()
NoTwin == [tr \in Transports |-> [buf |-> <<>>, out |-> <<>>, ok |-> TRUE]]

\* self._startSeq = None, self._sigInfo = None
Unset == [set |-> FALSE, v |-> <<>>]

\* the templates of interface_dummy, and a template whose eval raises
Templates == {"dummy", "bad"}

\* configOptions: the userData of the selected key
FsCode(fs) == CASE fs = 200 -> 1 [] fs = 500 -> 2 [] OTHER -> 3

GainCode(g) == CASE g = 1 -> 0 [] g = 2 -> 16 [] g = 4 -> 32 [] OTHER -> 48

\* eval(startSeqTemplate.format(**startSeqValues)) with
\* "[bytes([{FS1}, {GAIN1}]), 0.05, bytes([{FS2}, {GAIN2}]), 0.05, b':']"
EvalStartSeq(c) ==
    <<BytesEl(<<FsCode(c.FS1), GainCode(c.GAIN1)>>), FloatEl(50),
      BytesEl(<<FsCode(c.FS2), GainCode(c.GAIN2)>>), FloatEl(50),
      BytesEl(<<58>>)>>

\* eval(sigInfoTemplate.format(**sigInfoValues))
EvalSigInfo(c) ==
    <<[name |-> "sig1", fs |-> c.FS1, nCh |-> c.NCH1],
      [name |-> "sig2", fs |-> c.FS2, nCh |-> c.NCH2]>>

\* InterfaceConfigDialog.__init__
DialogOpen ==
    /\ params = NoParams
    /\ decoded = NoDecode
    /\ dialogStartSeq = Unset
    /\ dialogSigInfo = Unset
    /\ accepted = FALSE

NoDialog ==
    /\ combos = DefaultCombos
    /\ templates = [start |-> "dummy", sig |-> "dummy"]
    /\ DialogOpen
    /\ twin = NoTwin
    /\ NoWidget

\* the template with 4 bytes per float32 value, as in the constant it replaced
PacketSizeFloat32(p) ==
    4 * (p.NCH1 * (p.FS1 \div 50) + p.NCH2 * (p.FS2 \div 50))

\* packetSize = "{NCH1} * ({NCH1} * ({FS1}//50) + {NCH2} * ({FS2}//50))"
PacketSizeTemplate(p) ==
    p.NCH1 * (p.NCH1 * (p.FS1 \div 50) + p.NCH2 * (p.FS2 \div 50))

\* a packet of n bytes
PacketOf(n) == [i \in 1 .. n |-> i % 256]

\* np.frombuffer(data, dtype=np.float32): one value per 4 bytes
Frombuffer(data) ==
    IF Len(data) % 4 # 0
    THEN [ok |-> FALSE, v |-> <<>>]
    ELSE [ok |-> TRUE,
          v |-> [k \in 1 .. (Len(data) \div 4) |-> SubSeq(data, 4 * k - 3, 4 * k)]]

\* v[a:b] of numpy, 0-based and clipped to the length of v
Slice(v, a, b) == SubSeq(v, Min(a, Len(v)) + 1, Min(b, Len(v)))

\* v.reshape(rows, cols)
Reshape(v, rows, cols) ==
    IF Len(v) # rows * cols
    THEN [ok |-> FALSE, m |-> <<>>]
    ELSE [ok |-> TRUE,
          m |-> [r \in 1 .. rows |-> [c \in 1 .. cols |-> v[(r - 1) * cols + c]]]]

decodeFn(data, p) ==
    LET ns1 == p.FS1 \div 50
        ns2 == p.FS2 \div 50
        dataTmp == Frombuffer(data)
        sig1 == Reshape(Slice(dataTmp.v, 0, ns1 * p.NCH1), ns1, p.NCH1)
        sig2 == Reshape(Slice(dataTmp.v, ns1 * p.NCH1, Len(dataTmp.v)), ns2, p.NCH2)
    IN  IF dataTmp.ok /\ sig1.ok /\ sig2.ok
        THEN [st |-> "ok", sig1 |-> sig1.m, sig2 |-> sig2.m]
        ELSE [st |-> "ValueError", sig1 |-> <<>>, sig2 |-> <<>>]

NoRead(tags) == [buf |-> tags, out |-> <<>>, src |-> 0, sock |-> 0]

\* the bookkeeping of one readyRead of socket src that read chunk from
\* socket sock: the tags go through the code path of the bytes
Provenance(src, sock, chunk) ==
    LET t == TcpCollectData(prov.buf, packetSize, [i \in 1 .. Len(chunk) |-> sock])
    IN  [buf |-> t.buf, out |-> t.out, src |-> src, sock |-> sock]

Constructed(cfgs, sizes, bytes) ==
    /\ transport \in Transports
    /\ packetSize \in sizes
    /\ \E c \in cfgs : startSeq = c.start /\ stopSeq = c.stop
    /\ buffer = <<>>
    /\ isOpen = FALSE
    /\ clientSock = 0
    /\ openSocks = {}
    /\ clients = 0
    /\ phase = "idle"
    /\ errors = 0
    /\ sessions = 0
    /\ startBuf = <<>>
    /\ sessFed = <<>>
    /\ sessOut = <<>>
    /\ fresh = NoFresh
    /\ ev = Ev("init", "idle", <<>>, <<>>, <<>>, TRUE, <<>>, <<>>)
    /\ wfail = 0
    /\ budget = bytes
    /\ prov = NoRead(<<>>)

Init == Constructed(Configs, 1 .. MaxPacketSize, MaxFed) /\ endless = FALSE /\ NoDialog

InitSeq == Constructed(SeqConfigs, {1}, MaxFedSeq) /\ endless = FALSE /\ NoDialog

\* packetSize: int is stored as given, whatever its sign
InitCtor == Constructed({Esp32Config}, -1 .. 1, MaxFedCtor) /\ endless = FALSE /\ NoDialog

\* the dialog of the dummy interface is open, no worker runs
InitDummy ==
    /\ Constructed({DummyConfig}, {1}, 0)
    /\ transport = "serial"
    /\ endless = FALSE
    /\ combos \in configOptions
    /\ templates \in [start : Templates, sig : Templates]
    /\ DialogOpen
    /\ twin = NoTwin
    /\ NoWidget

\* a worker of each transport, freshly constructed with the same packetSize
InitTwin ==
    /\ Constructed({Esp32Config}, 1 .. MaxPacketSize, MaxFedTwin)
    /\ transport = "serial"
    /\ endless = FALSE
    /\ NoDialog

\* a device that keeps transmitting
InitLive == Constructed({Esp32Config}, {1, 2}, MaxFedLive) /\ endless = TRUE /\ NoDialog

InSession == phase \in {"running", "draining"}

CanStart == phase \in {"idle", "stopped", "failed"} /\ sessions < MaxSessions

\* history kept at the start of a session
NewSession ==
    /\ sessions' = sessions + 1
    /\ startBuf' = buffer
    /\ sessFed' = <<>>
    /\ sessOut' = <<>>
    /\ fresh' = NoFresh

\* the elements of a sequence whose write is attempted: on BLE the loop ends
\* at the first element that is not UTF-8
Attempted(tr, seq) ==
    {i \in 1 .. Len(seq) :
        /\ seq[i].t = "bytes"
        /\ tr = "ble" => \A j \in 1 .. i : seq[j].t = "bytes" => Utf8Valid(seq[j].b)}

\* the transport may report any one attempted write as failed (write()
\* returns -1, the service signals an error); the loops never look
WriteMayFail(tr, seq) == wfail' \in {0} \cup Attempted(tr, seq)

\* QIODevice.write on a port that is not open fails
WriteFailsClosed(seq) ==
    wfail' = IF Attempted("serial", seq) = {} THEN 0
             ELSE CHOOSE i \in Attempted("serial", seq) :
                     \A j \in Attempted("serial", seq) : i <= j

(***************************************************************************)
(* startCollecting                                                         *)
(***************************************************************************)
\* mutant of SerialStartCollecting: the return after the failed open is
\* missing, the start sequence is sent to the closed port
SerialStartCollectingNoReturn ==
    /\ transport = "serial"
    /\ CanStart
    /\ \E opened \in BOOLEAN :
         IF ~opened
         THEN /\ errors' = errors + 1
              /\ phase' = "failed"
              /\ isOpen' = isOpen
              /\ ev' = Ev("start", phase, buffer, <<>>, <<>>, FALSE, startSeq,
                          RunSeq(startSeq).log)
              /\ WriteFailsClosed(startSeq)
         ELSE /\ isOpen' = TRUE
              /\ phase' = "running"
              /\ errors' = errors
              /\ ev' = Ev("start", phase, buffer, <<>>, <<>>, TRUE, startSeq,
                          RunSeq(startSeq).log)
              /\ WriteMayFail("serial", startSeq)
    /\ NewSession
    /\ UNCHANGED <<config, world, buffer, tcpState, budget>>

SerialStartCollecting ==
    /\ transport = "serial"
    /\ CanStart
    /\ \E opened \in BOOLEAN :
         IF ~opened
         THEN /\ errors' = errors + 1
              /\ phase' = "failed"
              /\ isOpen' = isOpen
              /\ ev' = Ev("start", phase, buffer, <<>>, <<>>, FALSE, <<>>, <<>>)
              /\ wfail' = 0
         ELSE /\ isOpen' = TRUE
              /\ phase' = "running"
              /\ errors' = errors
              /\ ev' = Ev("start", phase, buffer, <<>>, <<>>, TRUE, startSeq,
                          RunSeq(startSeq).log)
              /\ WriteMayFail("serial", startSeq)
    /\ NewSession
    /\ UNCHANGED <<config, world, buffer, tcpState, budget>>

TcpStartCollecting ==
    /\ transport = "tcp"
    /\ CanStart
    /\ \E listening \in BOOLEAN :
         IF ~listening
         THEN /\ errors' = errors + 1
              /\ phase' = "failed"
              /\ isOpen' = isOpen
              /\ ev' = Ev("start", phase, buffer, <<>>, <<>>, FALSE, <<>>, <<>>)
         ELSE /\ isOpen' = TRUE
              /\ phase' = "running"
              /\ errors' = errors
              /\ ev' = Ev("start", phase, buffer, <<>>, <<>>, TRUE, <<>>, <<>>)
    /\ wfail' = 0
    /\ prov' = NoRead(prov.buf)
    /\ NewSession
    /\ UNCHANGED <<config, env, buffer, tcpState, budget>>

BleStartCollecting ==
    /\ transport = "ble"
    /\ CanStart
    /\ LET r == BleRunSeq(startSeq)
       IN  /\ phase' = IF r.ok THEN "running" ELSE "failed"
           /\ ev' = Ev("start", phase, buffer, <<>>, <<>>, r.ok, startSeq, r.log)
    /\ WriteMayFail("ble", startSeq)
    /\ NewSession
    /\ UNCHANGED <<config, world, buffer, isOpen, tcpState, errors, budget>>

\* TCPDataSourceWorker._handleConnection
TcpHandleConnection ==
    /\ transport = "tcp"
    /\ isOpen
    /\ clients < MaxClients
    /\ clients' = clients + 1
    /\ clientSock' = clients + 1
    /\ openSocks' = openSocks \cup {clients + 1}
    /\ ev' = Ev("connect", phase, buffer, <<>>, <<>>, TRUE, startSeq,
                RunSeq(startSeq).log)
    /\ WriteMayFail("tcp", startSeq)
    /\ prov' = NoRead(prov.buf)
    /\ UNCHANGED <<config, env, buffer, isOpen, phase, errors, sessions,
                   sessHist, budget>>

(***************************************************************************)
(* stopCollecting                                                          *)
(***************************************************************************)
\* the stop command, then the first waitForReadyRead(100): on a closed port
\* it returns False at once and the handler finishes
SerialStopCollecting ==
    /\ transport = "serial"
    /\ phase # "draining"
    /\ IF isOpen
       THEN /\ phase' = "draining"
            /\ buffer' = buffer
            /\ ev' = Ev("stopwait", phase, buffer, <<>>, <<>>, TRUE, stopSeq,
                        RunSeq(stopSeq).log)
            /\ WriteMayFail("serial", stopSeq)
       ELSE /\ phase' = "stopped"
            /\ buffer' = <<>>
            /\ ev' = Ev("stop", phase, buffer, <<>>, <<>>, TRUE, stopSeq,
                        RunSeq(stopSeq).log)
            /\ WriteFailsClosed(stopSeq)
    /\ UNCHANGED <<config, world, isOpen, tcpState, errors, sessions, sessHist, budget>>

\* waitForReadyRead(100) timed out: close the port, reset the buffer
SerialStopFinish ==
    /\ transport = "serial"
    /\ phase = "draining"
    /\ isOpen' = FALSE
    /\ buffer' = <<>>
    /\ phase' = "stopped"
    /\ ev' = Ev("stop", phase, buffer, <<>>, <<>>, TRUE, stopSeq,
                RunSeq(stopSeq).log)
    /\ UNCHANGED <<config, world, tcpState, errors, sessions, sessHist, wfail, budget>>

TcpStopCollecting ==
    /\ transport = "tcp"
    /\ IF clientSock # 0
       THEN /\ ev' = Ev("stop", phase, buffer, <<>>, <<>>, TRUE, stopSeq,
                        RunSeq(stopSeq).log)
            /\ openSocks' = openSocks \ {clientSock}
            /\ clientSock' = 0
            /\ WriteMayFail("tcp", stopSeq)
       ELSE /\ ev' = Ev("stop", phase, buffer, <<>>, <<>>, TRUE, <<>>, <<>>)
            /\ wfail' = 0
            /\ UNCHANGED <<openSocks, clientSock>>
    /\ isOpen' = FALSE
    /\ buffer' = <<>>
    /\ prov' = NoRead(<<>>)
    /\ phase' = "stopped"
    /\ UNCHANGED <<config, env, clients, errors, sessions, sessHist, budget>>

BleStopCollecting ==
    /\ transport = "ble"
    /\ LET r == BleRunSeq(stopSeq)
       IN  /\ buffer' = IF r.ok THEN <<>> ELSE buffer
           /\ ev' = Ev("stop", phase, buffer, <<>>, <<>>, r.ok, stopSeq, r.log)
    /\ WriteMayFail("ble", stopSeq)
    /\ phase' = "stopped"
    /\ UNCHANGED <<config, world, isOpen, tcpState, errors, sessions, sessHist, budget>>

(***************************************************************************)
(* _collectData                                                            *)
(***************************************************************************)
\* one call of _collectData with the bytes the transport hands over
Deliver(chunk) ==
    LET r == CollectData(transport, buffer, packetSize, chunk)
        f == CollectData(transport, fresh.buf, packetSize, chunk)
    IN  /\ Len(sessOut) <= MaxFed
        /\ endless => Len(buffer) + Len(chunk) <= budget
        /\ buffer' = r.buf
        /\ ev' = Ev("collect", phase, buffer, chunk, r.out, r.ok, <<>>, <<>>)
        /\ budget' = IF endless THEN budget ELSE budget - Len(chunk)
        /\ wfail' = 0
        /\ IF InSession /\ ~endless
           THEN /\ sessFed' = sessFed \o chunk
                /\ sessOut' = sessOut \o r.out
                /\ fresh' = [buf |-> f.buf, out |-> fresh.out \o f.out]
                /\ startBuf' = startBuf
           ELSE UNCHANGED sessHist

\* readyRead of the open serial port, from the event loop
SerialReadyRead ==
    /\ transport = "serial"
    /\ phase = "running"
    /\ isOpen
    /\ \E chunk \in Chunks :
         /\ chunk # <<>>
         /\ Len(chunk) <= budget
         /\ Deliver(chunk)
    /\ UNCHANGED <<config, world, isOpen, tcpState, phase, errors, sessions>>

\* readyRead inside waitForReadyRead(100) of stopCollecting, then clear()
SerialDrainRead ==
    /\ transport = "serial"
    /\ phase = "draining"
    /\ \E chunk \in Chunks :
         /\ chunk # <<>>
         /\ Len(chunk) <= budget
         /\ Deliver(chunk)
    /\ UNCHANGED <<config, world, isOpen, tcpState, phase, errors, sessions>>

\* readyRead of an accepted socket: _collectData reads self._clientSock,
\* whichever socket signalled
TcpReadyRead ==
    /\ transport = "tcp"
    /\ \E src \in openSocks :
         IF clientSock = 0
         THEN /\ ev' = Ev("collect", phase, buffer, <<>>, <<>>, FALSE, <<>>, <<>>)
              /\ wfail' = 0
              /\ prov' = [NoRead(prov.buf) EXCEPT !.src = src]
              /\ UNCHANGED <<buffer, budget, sessHist>>
         ELSE IF src = clientSock
         THEN \E chunk \in Chunks :
                /\ chunk # <<>>
                /\ Len(chunk) <= budget
                /\ Deliver(chunk)
                /\ prov' = Provenance(src, clientSock, chunk)
         ELSE /\ Deliver(<<>>)
              /\ prov' = Provenance(src, clientSock, <<>>)
    /\ UNCHANGED <<config, env, isOpen, tcpState, phase, errors, sessions>>

\* characteristicChanged, connected in __init__ and never disconnected
BleNotify ==
    /\ transport = "ble"
    /\ \E chunk \in Chunks :
         /\ Len(chunk) <= budget
         /\ Deliver(chunk)
    /\ UNCHANGED <<config, world, isOpen, tcpState, phase, errors, sessions>>

Next ==
    \/ SerialStartCollecting
    \/ TcpStartCollecting
    \/ BleStartCollecting
    \/ TcpHandleConnection
    \/ SerialStopCollecting
    \/ SerialStopFinish
    \/ TcpStopCollecting
    \/ BleStopCollecting
    \/ SerialReadyRead
    \/ SerialDrainRead
    \/ TcpReadyRead
    \/ BleNotify

Spec == Init /\ [][Next]_vars

SpecSeq == InitSeq /\ [][Next]_vars

SpecCtor == InitCtor /\ [][Next]_vars

\* InterfaceConfigDialog.onClicked: the selected values, as int(currentText),
\* become the runtime parameters of the interface
\* (an exception raised by eval leaves the slot at that line)
OnClicked ==
    /\ ~accepted
    /\ IF templates.start = "bad"
       THEN UNCHANGED <<dialogStartSeq, dialogSigInfo, accepted, params>>
       ELSE /\ dialogStartSeq' = [set |-> TRUE, v |-> EvalStartSeq(combos)]
            /\ IF templates.sig = "bad"
               THEN UNCHANGED <<dialogSigInfo, accepted, params>>
               ELSE /\ dialogSigInfo' = [set |-> TRUE, v |-> EvalSigInfo(combos)]
                    /\ accepted' = TRUE
                    /\ params' = combos
    /\ UNCHANGED <<config, buffer, isOpen, tcpState, phase, errors, sessions,
                   sessHist, ev, wfail, budget, endless, prov, combos, templates,
                   decoded, twin, widget>>

\* decodeFn on one packet of the size the template gives
DecodeFn ==
    /\ params # NoParams
    /\ decoded = NoDecode
    /\ decoded' = decodeFn(PacketOf(PacketSizeTemplate(params)), params)
    /\ UNCHANGED <<config, buffer, isOpen, tcpState, phase, errors, sessions,
                   sessHist, ev, wfail, budget, endless, prov, combos, params,
                   templates, dialogStartSeq, dialogSigInfo, accepted, twin,
                   widget>>

NextDummy == OnClicked \/ DecodeFn

\* the same chunk handed to the _collectData of each of the three workers
CollectDataEach ==
    /\ \E chunk \in Chunks :
         /\ Len(chunk) <= budget
         /\ budget' = budget - Len(chunk)
         /\ twin' = [tr \in Transports |->
                        CollectData(tr, twin[tr].buf, packetSize, chunk)]
    /\ UNCHANGED <<config, buffer, isOpen, tcpState, phase, errors, sessions,
                   sessHist, ev, wfail, endless, prov, dialog, widget>>

SpecTwin == InitTwin /\ [][CollectDataEach]_vars

(***************************************************************************)
(* BLEConfigWidget                                                         *)
(***************************************************************************)
offWidget == <<config, buffer, isOpen, tcpState, phase, errors, sessions,
               sessHist, ev, wfail, budget, endless, prov, dialog, twin>>

Event(op) == [NoResult EXCEPT !.op = op]

\* QLowEnergyController.createServiceObject: an object only for a service
\* the connected controller has discovered
CanCreate(cs, c, u) ==
    /\ c # 0
    /\ cs[c].st = "connected"
    /\ \E i \in 1 .. cs[c].sent : ServicesOf(cs[c].dev)[i] = u

\* discover_characteristics, the slot of comboBoxService.currentIndexChanged:
\* the characteristic items and the pending service objects it leaves
discover_characteristics(svc, cs, pnd) ==
    LET u == CurrentData(svc)
    IN  IF svc.idx < 0 \/ u = None
        THEN [chr |-> <<>>, pnd |-> pnd]
        ELSE IF services_cache[u].has
        THEN [chr |-> services_cache[u].chars, pnd |-> pnd]
        ELSE IF CanCreate(cs, controller, u)
        THEN [chr |-> <<>>, pnd |-> pnd \cup {[ctrl |-> controller, uuid |-> u]}]
        ELSE [chr |-> <<>>, pnd |-> pnd]

\* on_button_clicked with the text of lineEditName
OnButtonClicked ==
    /\ scan.n < MaxScans
    /\ \E f \in Filters :
         IF f = ""
         THEN /\ filter_prefix' = filter_prefix
              /\ scan' = [active |-> FALSE, left |-> {}, n |-> scan.n + 1]
         ELSE /\ filter_prefix' = f
              /\ scan' = [active |-> TRUE, left |-> Devices, n |-> scan.n + 1]
    /\ comboBoxName' = EmptyCombo
    /\ comboBoxService' = EmptyCombo
    /\ comboBoxCharacteristic' = <<>>
    /\ wev' = NoResult
    /\ UNCHANGED <<controller, current_device, ctrls, pending,
                   device_services_cache, services_cache, offWidget>>

\* on_device_discovered
OnDeviceDiscovered ==
    /\ scan.active
    /\ \E d \in scan.left :
         LET added == IF filter_prefix # "" /\ Matches(filter_prefix, d)
                      THEN AddItem(comboBoxName, d, d)
                      ELSE comboBoxName
             index == FindText(added, current_device)
         IN  /\ comboBoxName' = IF current_device # None /\ index >= 0
                                 THEN [added EXCEPT !.idx = index]
                                 ELSE added
             /\ scan' = [scan EXCEPT !.left = @ \ {d}]
    /\ wev' = NoResult
    /\ UNCHANGED <<comboBoxService, comboBoxCharacteristic, filter_prefix,
                   controller, current_device, ctrls, pending,
                   device_services_cache, services_cache, offWidget>>

\* on_scan_finished; a device out of range is never reported
OnScanFinished ==
    /\ scan.active
    /\ scan' = [scan EXCEPT !.active = FALSE, !.left = {}]
    /\ comboBoxName' = IF comboBoxName.items = <<>>
                        THEN AddItem(comboBoxName, "No device found", None)
                        ELSE comboBoxName
    /\ wev' = NoResult
    /\ UNCHANGED <<comboBoxService, comboBoxCharacteristic, filter_prefix,
                   controller, current_device, ctrls, pending,
                   device_services_cache, services_cache, offWidget>>

\* QLowEnergyController.disconnectFromDevice: what a discovery had under
\* way may still be delivered, nothing else is
Disconnect(c) ==
    IF c.disc = "running"
    THEN [c EXCEPT !.st = "disconnected"]
    ELSE [dev |-> c.dev, st |-> "disconnected", disc |-> "no", sent |-> 0]

\* on_user_selected_device(index): the user activates an item
OnUserSelectedDevice ==
    /\ \E index \in 0 .. Len(comboBoxName.items) - 1 :
         LET device == comboBoxName.items[index + 1].data
         IN  /\ comboBoxName' = [comboBoxName EXCEPT !.idx = index]
             /\ IF device = None \/ device = current_device
                THEN UNCHANGED <<comboBoxService, comboBoxCharacteristic,
                                 controller, current_device, ctrls>>
                ELSE /\ Len(ctrls) < MaxCtrls
                     /\ comboBoxService' = EmptyCombo
                     /\ comboBoxCharacteristic' = <<>>
                     /\ current_device' = device
                     /\ controller' = Len(ctrls) + 1
                     /\ ctrls' = Append(IF current_device # None
                                        THEN [ctrls EXCEPT ![controller] = Disconnect(@)]
                                        ELSE ctrls,
                                        [dev |-> device, st |-> "connecting",
                                         disc |-> "no", sent |-> 0])
    /\ wev' = NoResult
    /\ pending' = {p \in pending : p.ctrl = controller'}
    /\ UNCHANGED <<filter_prefix, scan, device_services_cache, services_cache,
                   offWidget>>

\* the items on_connected adds for a cached list
Filled(list) ==
    [items |-> [i \in 1 .. Len(list) |-> [text |-> list[i], data |-> list[i]]],
     idx |-> IF list = <<>> THEN -1 ELSE 0]

\* on_connected, the slot of controller.connected
OnConnected ==
    /\ \E c \in 1 .. Len(ctrls) :
         /\ ctrls[c].st = "connecting"
         /\ LET cs == [ctrls EXCEPT ![c].st = "connected"]
                cache == device_services_cache[current_device]
                r == discover_characteristics(Filled(cache.list), cs, pending)
            IN  IF cache.has
                THEN /\ comboBoxService' = Filled(cache.list)
                     /\ comboBoxCharacteristic' = r.chr
                     /\ pending' = r.pnd
                     /\ ctrls' = cs
                     /\ wev' = [Event("connected") EXCEPT !.dev = current_device,
                                    !.cached = TRUE, !.list = cache.list]
                ELSE /\ comboBoxService' = EmptyCombo
                     /\ comboBoxCharacteristic' = <<>>
                     /\ pending' = pending
                     /\ ctrls' = [cs EXCEPT ![controller].disc = "running"]
                     /\ wev' = [Event("connected") EXCEPT !.dev = current_device]
    /\ UNCHANGED <<comboBoxName, filter_prefix, scan, controller, current_device,
                   device_services_cache, services_cache, offWidget>>

\* on_service_discovered(uuid), the slot of serviceDiscovered of every
\* controller created so far; a controller that was told to disconnect may
\* still deliver what its discovery had under way
OnServiceDiscovered ==
    /\ \E c \in 1 .. Len(ctrls) :
         /\ ctrls[c].disc = "running"
         /\ ctrls[c].st \in {"connected", "disconnected"}
         /\ ctrls[c].sent < Len(ServicesOf(ctrls[c].dev))
         /\ LET uuid == ServicesOf(ctrls[c].dev)[ctrls[c].sent + 1]
                cs == [ctrls EXCEPT ![c].sent = @ + 1]
                svc == AddItem(comboBoxService, uuid, uuid)
                r == discover_characteristics(svc, cs, pending)
                cache == device_services_cache[current_device]
            IN  /\ ctrls' = cs
                /\ comboBoxService' = svc
                /\ IF comboBoxService.items = <<>>
                   THEN comboBoxCharacteristic' = r.chr /\ pending' = r.pnd
                   ELSE UNCHANGED <<comboBoxCharacteristic, pending>>
                /\ device_services_cache' =
                      [device_services_cache EXCEPT ![current_device] =
                          IF ~cache.has
                          THEN [has |-> TRUE, list |-> <<uuid>>]
                          ELSE IF \E i \in 1 .. Len(cache.list) : cache.list[i] = uuid
                          THEN cache
                          ELSE [has |-> TRUE, list |-> Append(cache.list, uuid)]]
                /\ wev' = NoResult
    /\ UNCHANGED <<comboBoxName, filter_prefix, scan, controller, current_device,
                   services_cache, offWidget>>

\* on_services_finished, the slot of discoveryFinished
OnServicesFinished ==
    /\ \E c \in 1 .. Len(ctrls) :
         /\ ctrls[c].disc = "running"
         /\ ctrls[c].st \in {"connected", "disconnected"}
         /\ ctrls[c].sent = Len(ServicesOf(ctrls[c].dev))
         /\ ctrls' = [ctrls EXCEPT ![c] =
                         IF @.st = "connected"
                         THEN [@ EXCEPT !.disc = "done"]
                         ELSE [@ EXCEPT !.disc = "no", !.sent = 0]]
    /\ comboBoxService' = IF comboBoxService.items = <<>>
                           THEN AddItem(comboBoxService, "No service found", None)
                           ELSE comboBoxService
    /\ comboBoxCharacteristic' = IF comboBoxService.items = <<>>
                                  THEN <<>>
                                  ELSE comboBoxCharacteristic
    /\ wev' = NoResult
    /\ UNCHANGED <<comboBoxName, filter_prefix, scan, controller, current_device,
                   pending, device_services_cache, services_cache, offWidget>>

\* the user picks another service: currentIndexChanged, discover_characteristics
UserSelectsService ==
    /\ \E i \in 0 .. Len(comboBoxService.items) - 1 :
         /\ i # comboBoxService.idx
         /\ LET svc == [comboBoxService EXCEPT !.idx = i]
                r == discover_characteristics(svc, ctrls, pending)
            IN  /\ comboBoxService' = svc
                /\ comboBoxCharacteristic' = r.chr
                /\ pending' = r.pnd
    /\ wev' = NoResult
    /\ UNCHANGED <<comboBoxName, filter_prefix, scan, controller, current_device,
                   ctrls, device_services_cache, services_cache, offWidget>>

\* _on_service_state_changed with state ServiceDiscovered, then
\* _populate_characteristics
OnServiceStateChanged ==
    /\ \E p \in pending :
         /\ ctrls[p.ctrl].st = "connected"
         /\ LET characteristics == CharObjects(p.ctrl, ctrls[p.ctrl].dev, p.uuid)
            IN  /\ services_cache' =
                      [services_cache EXCEPT ![p.uuid] =
                          [has |-> TRUE, chars |-> characteristics]]
                /\ comboBoxCharacteristic' = characteristics
         /\ pending' = pending \ {p}
    /\ wev' = NoResult
    /\ UNCHANGED <<comboBoxName, comboBoxService, filter_prefix, scan, controller,
                   current_device, ctrls, device_services_cache, offWidget>>

\* the last characteristic of the combo box with the property, as the loop
\* of validateConfig leaves it
LastWith(chars, prop) ==
    IF \E i \in 1 .. Len(chars) : prop \in chars[i].props
    THEN chars[CHOOSE i \in 1 .. Len(chars) :
                  /\ prop \in chars[i].props
                  /\ \A j \in i + 1 .. Len(chars) : prop \notin chars[j].props]
    ELSE NoChar

\* validateConfig
ValidateConfig ==
    /\ wev' = IF \/ CurrentText(comboBoxName) = ""
                  \/ CurrentText(comboBoxService) = ""
                  \/ comboBoxCharacteristic = <<>>
               THEN Event("validate")
               ELSE [Event("validate") EXCEPT
                        !.valid = TRUE,
                        !.device = CurrentData(comboBoxName),
                        !.ctrl = controller,
                        !.uuid = CurrentData(comboBoxService),
                        !.wch = LastWith(comboBoxCharacteristic, "Write"),
                        !.nch = LastWith(comboBoxCharacteristic, "Notify")]
    /\ UNCHANGED <<comboBoxName, comboBoxService, comboBoxCharacteristic,
                   filter_prefix, scan, controller, current_device, ctrls,
                   pending, device_services_cache, services_cache, offWidget>>

NextWidget ==
    \/ OnButtonClicked
    \/ OnDeviceDiscovered
    \/ OnScanFinished
    \/ OnUserSelectedDevice
    \/ OnConnected
    \/ OnServiceDiscovered
    \/ OnServicesFinished
    \/ UserSelectsService
    \/ OnServiceStateChanged
    \/ ValidateConfig

\* the widget right after construction, no worker in use
InitWidget ==
    /\ Constructed({Esp32Config}, {1}, 0)
    /\ transport = "ble"
    /\ endless = FALSE
    /\ NoDialog

SpecWidget == InitWidget /\ [][NextWidget]_vars

SpecDummy == InitDummy /\ [][NextDummy]_vars

\* the loop of the serial stopCollecting keeps turning: each
\* waitForReadyRead(100) returns, with data or with a timeout
SpecLive ==
    InitLive /\ [][Next]_vars /\ WF_vars(SerialDrainRead \/ SerialStopFinish)

(***************************************************************************)
(* Properties                                                              *)
(***************************************************************************)
SerialOrTcp == transport \in {"serial", "tcp"}

\* the handler that ran last is a _collectData of a running session that
\* appended its chunk
Delivered == ev.op = "collect" /\ ev.ok /\ ev.ph \in {"running", "draining"}

\* C1: within a session that started from an empty buffer, the packets
\* emitted so far followed by the bytes left in the buffer are exactly the
\* bytes handed to _collectData, for the serial, TCP and BLE workers.
ByteConservation ==
    (InSession /\ startBuf = <<>>) => Flatten(sessOut) \o buffer = sessFed

\* C2: right after a chunk delivery (serial and TCP workers) fewer than
\* packetSize bytes are left in the buffer, and a delivery of 3P + 5 bytes to
\* an empty buffer emits three packets and leaves 5 bytes.
DrainAll ==
    (SerialOrTcp /\ Delivered) =>
        /\ Len(buffer) < packetSize
        /\ (ev.pre = <<>> /\ Len(ev.chunk) = 3 * packetSize + 5)
              => (Len(ev.out) = 3 /\ Len(buffer) = 5)

\* C3: right after a chunk delivery the buffer is shorter than packetSize
\* plus the size of the chunk just appended.
BufferBound ==
    Delivered => Len(buffer) < packetSize + Len(ev.chunk)

\* C4: every packet handed to dataPacketReady is exactly packetSize bytes
\* long.
PacketLengthExact ==
    /\ \A i \in 1 .. Len(sessOut) : Len(sessOut[i]) = packetSize
    /\ \A i \in 1 .. Len(ev.out) : Len(ev.out[i]) = packetSize

PacketLengthExactWitness ==
    /\ Delivered
    /\ Len(ev.out) = 1
    /\ ev.pre # <<>>
    /\ buffer # <<>>
    /\ Len(ev.pre) < packetSize

\* C5: the k-th packet of a session (serial and TCP workers) is the k-th
\* run of packetSize bytes of everything delivered in that session.
PacketOrder ==
    SerialOrTcp =>
        \A k \in 1 .. Len(sessOut) :
            sessOut[k] = SubSeq(sessFed, (k - 1) * packetSize + 1, k * packetSize)

PacketOrderWitness ==
    /\ SerialOrTcp
    /\ Len(sessOut) >= 2
    /\ sessOut[1] # sessOut[2]
    /\ packetSize >= 2

\* C6: a packet has been emitted for every packetSize bytes that arrived in
\* the session, and for nothing else: the number of packets emitted is the
\* number of complete packets delivered, with no further chunk needed.
EmitIffArrived ==
    (InSession /\ startBuf = <<>>) => Len(sessOut) = Len(sessFed) \div packetSize

\* C7: when the chunks of a session (serial and TCP workers) add up to
\* exactly packetSize bytes, however they were split, one packet made of
\* these bytes has been emitted and the buffer is empty.
ChunkBoundaryIndependence ==
    (SerialOrTcp /\ InSession /\ Len(sessFed) = packetSize)
        => (sessOut = <<sessFed>> /\ buffer = <<>>)

ChunkBoundaryIndependenceWitness ==
    /\ SerialOrTcp
    /\ InSession
    /\ packetSize = 2
    /\ Delivered
    /\ Len(ev.pre) = 1
    /\ Len(ev.chunk) = 1
    /\ sessOut = <<sessFed>>

\* C8: a delivery (serial and TCP workers) that leaves fewer than packetSize
\* bytes in total emits nothing and only appends the chunk; the delivery that
\* reaches exactly packetSize emits that one packet and empties the buffer;
\* with packetSize 4, 3 bytes delivered on top of 2 emit the first 4 bytes
\* and leave the fifth.
ThresholdDelivery ==
    (SerialOrTcp /\ Delivered) =>
        LET all == ev.pre \o ev.chunk
        IN  /\ Len(all) < packetSize => (ev.out = <<>> /\ buffer = all)
            /\ Len(all) = packetSize => (ev.out = <<all>> /\ buffer = <<>>)
            /\ (packetSize = 4 /\ Len(ev.pre) = 2 /\ Len(ev.chunk) = 3)
                  => (ev.out = <<SubSeq(all, 1, 4)>> /\ buffer = <<all[5]>>)

ThresholdDeliveryWitness ==
    /\ SerialOrTcp
    /\ Delivered
    /\ packetSize = 4
    /\ startBuf = <<>>
    /\ Len(sessFed) = 5
    /\ Len(ev.pre) = 2
    /\ Len(ev.chunk) = 3
    /\ Len(buffer) = 1

\* C9: stopCollecting leaves an empty buffer, and the packets of a session
\* are those a freshly constructed worker emits for the chunks of that
\* session.
ResetIsolatesSessions ==
    /\ ev.op = "stop" => buffer = <<>>
    /\ InSession => sessOut = fresh.out

\* C10: a handler that runs a command sequence performs one action per
\* element, in order: a write for a byte string, a sleep of that duration
\* for a number.
SequenceInOrder ==
    ev.op \in {"start", "connect", "stop", "stopwait"} =>
        /\ Len(ev.log) = Len(ev.seq)
        /\ \A i \in 1 .. Len(ev.seq) :
              IF ev.seq[i].t = "bytes"
              THEN ev.log[i].op = "write"
              ELSE ev.log[i] = SleepOp(ev.seq[i].d)

\* the handler that ran last is one that runs a command sequence
RanSeq == ev.op \in {"start", "connect", "stop", "stopwait"}

IsBytesEl(c) == c.t = "bytes"

IsWriteOp(o) == o.op = "write"

\* the byte-string elements of a command sequence, in order
ByteEls(seq) == SelectSeq(seq, IsBytesEl)

\* the transport writes of a handler, in order
Writes(log) == SelectSeq(log, IsWriteOp)

\* C11 (as stated): the bytes of every transport write are exactly the bytes
\* of the byte-string element it is made for, on serial, TCP and BLE.
WritesVerbatim ==
    RanSeq =>
        LET ws == Writes(ev.log)
            bs == ByteEls(ev.seq)
        IN  /\ Len(ws) <= Len(bs)
            /\ \A i \in 1 .. Len(ws) : ws[i].b = bs[i].b

\* C11 (amended): every transport write carries the bytes of the byte-string
\* element it is made for, unchanged on serial and TCP, followed by CR LF on
\* BLE.
WritesCarryElement ==
    RanSeq =>
        LET ws == Writes(ev.log)
            bs == ByteEls(ev.seq)
        IN  /\ Len(ws) <= Len(bs)
            /\ SerialOrTcp => Len(ws) = Len(bs)
            /\ \A i \in 1 .. Len(ws) :
                  ws[i].b = IF transport = "ble" THEN bs[i].b \o <<13, 10>>
                            ELSE bs[i].b

WritesCarryElementWitness ==
    /\ transport = "ble"
    /\ ev.op = "stop"
    /\ ev.ok
    /\ Len(Writes(ev.log)) = 1
    /\ \E i \in 1 .. Len(ev.seq) : ev.seq[i].t = "float"

\* the number of writes and sleeps the loops perform for the first i
\* elements of a sequence
OpsUpTo(seq, i) == Cardinality({j \in 1 .. i : seq[j].t \in {"bytes", "float"}})

\* C12: when the transport reports the write of element i as failed, the
\* handler performs nothing for the elements after i and reports the
\* failure with errorOccurred.
WriteFailureAborts ==
    [][(RanSeq' /\ wfail' # 0) =>
          /\ Len(ev'.log) <= OpsUpTo(ev'.seq, wfail')
          /\ errors' = errors + 1]_vars

RejectsNonPositiveSize ==
    /\ InSession => packetSize > 0
    /\ \A i \in 1 .. Len(ev.out) : Len(ev.out[i]) > 0

\* the writes of the handler that ran last which went to an open transport:
\* a serial port that is not open takes nothing
Sent ==
    IF transport = "serial" /\ ev.ph \notin {"running", "draining"}
    THEN <<>>
    ELSE Writes(ev.log)

\* C15: a stopCollecting without an active session raises no error, and a
\* stopCollecting that follows a stopCollecting writes nothing more to the
\* device and leaves the worker as the first one left it.
StopIdempotent ==
    [][ev'.op = "stop" =>
          /\ ~InSession => ev'.ok
          /\ ev.op = "stop" =>
                /\ Sent' = <<>>
                /\ buffer' = buffer
                /\ isOpen' = isOpen
                /\ clientSock' = clientSock
                /\ openSocks' = openSocks
                /\ phase' = phase]_vars

\* C16: a stopCollecting that has returned left the buffer empty and the
\* transport released, and a stopCollecting that has sent its stop command
\* gets there, also when the device keeps sending.
StopCompletes ==
    /\ [](ev.op = "stop" => (buffer = <<>> /\ ~isOpen /\ clientSock = 0))
    /\ (phase = "draining") ~> (phase = "stopped")

\* C17: on the serial and TCP transports, whenever stopCollecting is invoked
\* and whenever it resets the buffer, the buffer holds fewer than packetSize
\* bytes, so that only an incomplete trailing packet is discarded.
OnlyPartialDiscarded ==
    (SerialOrTcp /\ ev.op \in {"stopwait", "stop"} /\ ev.ph \in {"running", "draining"})
        => Len(ev.pre) < packetSize

SameTag(tags) == \A i, j \in 1 .. Len(tags) : tags[i] = tags[j]

\* C18: in a TCP session the buffered bytes and the bytes of every emitted
\* packet were read from one client connection, and a readyRead reads the
\* socket that signalled it.
OneHandlePerSession ==
    (transport = "tcp" /\ InSession) =>
        /\ SameTag(prov.buf)
        /\ \A k \in 1 .. Len(prov.out) : SameTag(prov.out[k])
        /\ ev.op = "collect" => prov.src = prov.sock

\* C19: a chunk is appended to the buffer, and a packet is emitted, only in
\* a session whose start command sequence has been sent.
StartPrecedesData ==
    (ev.op = "collect" /\ ((ev.ok /\ ev.chunk # <<>>) \/ ev.out # <<>>))
        => ev.ph \in {"running", "draining"}

Shape(m, rows, cols) == Len(m) = rows /\ \A r \in 1 .. Len(m) : Len(m[r]) = cols

\* C20: for every selection of the dummy interface the packet size is
\* 4 * (NCH1 * (FS1 // 50) + NCH2 * (FS2 // 50)) bytes, and decodeFn splits
\* a packet of that size into sig1 of shape (FS1 // 50, NCH1) and sig2 of
\* shape (FS2 // 50, NCH2).
DummySizeMatchesDecoder ==
    /\ params # NoParams => PacketSizeTemplate(params) = PacketSizeFloat32(params)
    /\ decoded # NoDecode =>
          /\ decoded.st = "ok"
          /\ Shape(decoded.sig1, params.FS1 \div 50, params.NCH1)
          /\ Shape(decoded.sig2, params.FS2 \div 50, params.NCH2)

\* C21: every call of _collectData, on any transport and whatever the chunk
\* and the backlog, emits no packet or one packet.
AtMostOnePerChunk == ev.op = "collect" => Len(ev.out) <= 1

\* a call that had two complete packets at hand
AtMostOnePerChunkWitness ==
    /\ ev.op = "collect"
    /\ ev.ok
    /\ Len(ev.pre) + Len(ev.chunk) >= 2 * packetSize
    /\ Len(ev.out) = 1
    /\ Len(buffer) >= packetSize

\* C22: given the same chunks from an empty buffer, the serial, TCP and BLE
\* _collectData emit the same packets and leave the same buffer after each
\* chunk.
SameFraming ==
    \A t1, t2 \in Transports :
        twin[t1].buf = twin[t2].buf /\ twin[t1].out = twin[t2].out

\* C23: a data-arrival handler that runs after stopCollecting has returned
\* and before the next startCollecting leaves the buffer as it was and emits
\* nothing.
SilentWhileStopped ==
    (ev.op = "collect" /\ ev.ph = "stopped") => (buffer = ev.pre /\ ev.out = <<>>)

\* C24: every list of device_services_cache is free of duplicates and holds
\* only services of the device it is stored for.
CacheAttribution ==
    \A d \in Devices :
        LET list == device_services_cache[d].list
        IN  /\ \A i, j \in 1 .. Len(list) : list[i] = list[j] => i = j
            /\ \A i \in 1 .. Len(list) :
                  \E k \in 1 .. Len(ServicesOf(d)) : ServicesOf(d)[k] = list[i]

\* C25: when on_connected fills comboBoxService from the cache, the cached
\* list is the complete list of the services of the device.
CacheComplete ==
    (wev.op = "connected" /\ wev.cached) =>
        /\ Len(wev.list) = Len(ServicesOf(wev.dev))
        /\ \A k \in 1 .. Len(ServicesOf(wev.dev)) :
              \E i \in 1 .. Len(wev.list) : wev.list[i] = ServicesOf(wev.dev)[k]

\* C26: every characteristic in comboBoxCharacteristic comes from a service
\* object of the current controller.
CharsOfCurrentController ==
    \A i \in 1 .. Len(comboBoxCharacteristic) :
        comboBoxCharacteristic[i].ctrl = controller

\* C27: validateConfig is invalid when a combo box is empty, and a valid
\* result has a device, a controller, a service, a characteristic with the
\* Write property and one with the Notify property.
ValidConfigComplete ==
    wev.op = "validate" =>
        /\ (\/ CurrentText(comboBoxName) = ""
            \/ CurrentText(comboBoxService) = ""
            \/ comboBoxCharacteristic = <<>>) => ~wev.valid
        /\ wev.valid =>
              /\ wev.device # None
              /\ wev.ctrl # 0
              /\ wev.uuid # None
              /\ "Write" \in wev.wch.props
              /\ "Notify" \in wev.nch.props

\* C28: _startSeq and _sigInfo of the dialog are both None or both set, and
\* they are set exactly when the dialog has been accepted.
DialogAtomic ==
    /\ dialogStartSeq.set = dialogSigInfo.set
    /\ accepted <=> (dialogStartSeq.set /\ dialogSigInfo.set)

====
